---- MODULE Spec2Model ----
(***************************************************************************)
(* Balance resolution of starknet_balance_gettoor: get_balance_map of      *)
(* src/balance.rs.  The storage log is an SQLite file with three tables    *)
(* (contract_addresses, storage_addresses, storage_updates); the function  *)
(* hashes the requested accounts to storage slots, scans the log with one  *)
(* grouped query per (token, shard), folds the rows of each token into an  *)
(* account -> balance map and merges the token maps.  The module also      *)
(* holds the output writers of src/output.rs (write_results and its CSV,   *)
(* JSON and SQLite writers, the two channel writers with their producer    *)
(* and writer threads) and the sequential resolution of src/main.rs.       *)
(***************************************************************************)
EXTENDS Integers, Sequences, FiniteSets, TLC

VARIABLES
    log,               \* rows of storage_updates (the file is not written by the run)
    db_has_path,       \* whether conn.path() is Some (a file) or None (in memory)
    addresses,         \* the input: [accounts, tokens], two sequences of felts
    pc,                \* position of get_balance_map
    accounts_hash_map, \* slot -> account
    shards_per_token,  \* number of shards per token, 0 before it is computed
    shard_pc,          \* per token index and shard index: "init", "connected", "done"
    shard_results,     \* per token index and shard index: None, Ok(rows), Err(message)
    token_results,     \* per token index: None, Ok([token, balances]), Err(message)
    result,            \* None, Ok(final_token_map), Err(message)
    num_cores,         \* rayon::current_num_threads() of the process, 0 before it is read
    first,             \* None, or what an earlier call of this process returned and scanned
    connections,       \* how many shard connections the call has opened and closed so far
    token_map,         \* the mapping given to write_results: token -> account -> balance
    config,            \* the OutputConfig given to write_results: [csv, json, sqlite]
    wr_pc,             \* position of write_results: "idle", "start", a format, "done"
    wr_result,         \* None, Ok(<<>>) or Err(message): what write_results returned
    attempted,         \* the writers write_results has called, in call order: [format, result]
    st_pc,             \* main thread of a channel store: "off", "producing", "joining"
    threads,           \* threads of the rayon pool that run the producers
    todo,              \* bag of the batches (as sets of records) no producer has built yet
    blocked,           \* bag of the batches held by producers blocked in tx.send
    channel,           \* the bounded channel: the batches sent and not yet received
    rx_open,           \* whether the receiver of the channel is alive
    writer,            \* the writer thread: [state, batch, result]
    csv_file,          \* token_map.csv: [exists, entries], the entries written to it
    json_file,         \* token_map.json: None, or the mapping written to it
    db                 \* token_map.db: [committed, pending] rows of the table token_map

balance_vars == <<log, db_has_path, addresses, pc, accounts_hash_map, shards_per_token,
                  shard_pc, shard_results, token_results, result, num_cores, first,
                  connections>>

output_vars == <<token_map, config, wr_pc, wr_result, attempted, st_pc, threads, todo,
                 blocked, channel, rx_open, writer, csv_file, json_file, db>>

vars == <<balance_vars, output_vars>>

-----------------------------------------------------------------------------
(* Bounds of the model *)

\* block numbers range over 1..MaxBlock
MaxBlock == 2
\* a log holds at most MaxUpdates rows of storage_updates
MaxUpdates == 2
\* rayon::current_num_threads() ranges over 1..MaxCores
MaxCores == 2
\* the hashing step is given sequences of at most MaxAccounts accounts
MaxAccounts == 3
\* the planning step is given sequences of at most MaxTokens tokens and
\* 1..MaxPlanCores threads
MaxTokens == 3
MaxPlanCores == 5

-----------------------------------------------------------------------------
(* Result<T> and Option<T> *)

None == [tag |-> "None"]
Ok(v) == [tag |-> "Ok", v |-> v]
Err(e) == [tag |-> "Err", e |-> e]
IsOk(r) == r.tag = "Ok"
IsErr(r) == r.tag = "Err"

(* HashMap<K, V>: a function; insert overwrites the entry of the key *)
EmptyMap == <<>>
Insert(m, k, v) == [x \in (DOMAIN m) \cup {k} |-> IF x = k THEN v ELSE m[x]]

-----------------------------------------------------------------------------
(* Felts, their byte encoding and their hex parsing *)

\* format!("{token:#064x}")[2..]: the felt as 64 hex digits, 32 bytes once decoded
HexWidth == 64
FeltBytes == HexWidth \div 2

\* A blob is held as its length in bytes and its big-endian value.
Blob(len, value) == [len |-> len, value |-> value]
EmptyBlob == Blob(0, 0)

\* hex::decode of the 64 zero-padded hex digits of a felt: its 32 big-endian bytes
FeltToBytes(f) == Blob(FeltBytes, f)

\* Felt::from_hex of SQLite's hex(blob): no digits is an error, otherwise the
\* big-endian value of the digits
FromHex(bytes) == IF bytes.len = 0 THEN Err("FromStrError") ELSE Ok(bytes.value)

FeltZero == 0

\* starknet_keccak("ERC20_balances")
balances_selector == 7

\* pedersen_hash(selector, account): deterministic; injective on the accounts
\* 11, 12 and 13, while the accounts 11 and 262 have the same hash
pedersen_hash(a, b) == (a * 16 + b * 5) % 251

-----------------------------------------------------------------------------
(* The storage log *)

\* the requested account inputs and the token inputs
AccountInputs == {<<11, 12>>}
TokenInputs == {<<21>>, <<21, 22>>}

Slot(account) == pedersen_hash(balances_selector, account)

\* contract_addresses: id -> contract_address blob
contract_addresses == <<FeltToBytes(21), FeltToBytes(22)>>

\* storage_addresses: id -> storage_address blob.  The table has no uniqueness
\* constraint on storage_address: ids 1 and 2 hold the same slot.  Id 4 is
\* the slot of an account that is not requested, id 5 an empty blob.  The id
\* is an INTEGER PRIMARY KEY, which may be given a negative value: id -1
\* holds the slot of account 12, as id 3 does.
storage_addresses ==
    [id \in {-1, 1, 2, 3, 4, 5} |->
        CASE id \in {1, 2} -> FeltToBytes(Slot(11))
          [] id \in {-1, 3} -> FeltToBytes(Slot(12))
          [] id = 4 -> FeltToBytes(Slot(13))
          [] id = 5 -> EmptyBlob]

\* storage_value blobs: two felts and an empty blob
ValueBlobs == {FeltToBytes(1000), FeltToBytes(2000), EmptyBlob}

\* the rows storage_updates may hold: every write to contract 1 at the storage
\* address ids 1 and 2, one write to contract 1 at each of the ids 3, 4 and 5,
\* and the writes of block 1 to contract 2 at id 1 (the writes at id -1 are
\* those of NegRows)
UpdateRows ==
    {r \in [cid : DOMAIN contract_addresses, sid : DOMAIN storage_addresses,
            val : ValueBlobs, block : 1..MaxBlock] :
        /\ r.sid >= 1
        /\ r.cid = 2 => (r.sid = 1 /\ r.block = 1)
        /\ r.sid = 3 => (r.val = FeltToBytes(2000) /\ r.block = 1)
        /\ r.sid \in {4, 5} => (r.val = FeltToBytes(1000) /\ r.block = 1)}

RECURSIVE SubsetsUpTo(_, _)
SubsetsUpTo(S, n) ==
    IF n = 0 THEN {{}}
    ELSE LET smaller == SubsetsUpTo(S, n - 1)
         IN  smaller \cup {s \cup {x} : s \in smaller, x \in S}

Logs == SubsetsUpTo(UpdateRows, MaxUpdates)

-----------------------------------------------------------------------------
(* The batch query of one shard *)

\* SQLite's % on integers: the remainder of the truncated division, with the
\* sign of the dividend
SqlRem(a, n) == IF a >= 0 THEN a % n ELSE 0 - ((0 - a) % n)

\* a query without the filter on the contract address
ShardSelectedAnyContract(l, token_bytes, n, k) ==
    {r \in l : /\ r.cid \in DOMAIN contract_addresses
               /\ r.sid \in DOMAIN storage_addresses
               /\ SqlRem(r.sid, n) = k}

\* a query that shards on the block number of the write
ShardSelectedByBlock(l, token_bytes, n, k) ==
    {r \in l : /\ r.cid \in DOMAIN contract_addresses
               /\ r.sid \in DOMAIN storage_addresses
               /\ contract_addresses[r.cid] = token_bytes
               /\ (r.block % n) = k}

\* WHERE contract_address = ?1 AND (storage_addresses.id % ?2) = ?3, over the
\* join of storage_updates with storage_addresses and contract_addresses
ShardSelected(l, token_bytes, n, k) ==
    {r \in l : /\ r.cid \in DOMAIN contract_addresses
               /\ r.sid \in DOMAIN storage_addresses
               /\ contract_addresses[r.cid] = token_bytes
               /\ SqlRem(r.sid, n) = k}

\* GROUP BY contract_address_id, storage_address_id
GroupKeys(rows) == {<<r.cid, r.sid>> : r \in rows}
GroupOf(rows, key) == {r \in rows : r.cid = key[1] /\ r.sid = key[2]}

MaxBlockOf(group) == CHOOSE b \in {r.block : r \in group} : \A r \in group : r.block <= b

\* MAX(block_number) with bare columns: the other columns come from a row of
\* the group that holds the maximum (any of them when several do)
GroupWinners(group) == {r \in group : r.block = MaxBlockOf(group)}

\* the row the query returns for a group: (hex(contract_address),
\* hex(storage_address), hex(storage_value), MAX(block_number))
ShardRow(r) == <<contract_addresses[r.cid], storage_addresses[r.sid], r.val, r.block>>

RECURSIVE Orderings(_)
Orderings(S) ==
    IF S = {} THEN {<<>>}
    ELSE UNION {{<<x>> \o rest : rest \in Orderings(S \ {x})} : x \in S}

\* every sequence of rows the query may return for shard k of n: one row per
\* group, the groups in any order (the query has no ORDER BY)
batch_query(l, token_bytes, n, k) ==
    LET rows == ShardSelected(l, token_bytes, n, k)
        keys == GroupKeys(rows)
        picks == {f \in [keys -> rows] : \A key \in keys : f[key] \in GroupWinners(GroupOf(rows, key))}
    IN  {[i \in 1..Len(o) |-> ShardRow(f[o[i]])] : o \in Orderings(keys), f \in picks}

-----------------------------------------------------------------------------
(* The fold of a token's rows and the merge of the tokens *)

\* a fold that passes over a row whose value does not parse
FoldRowSkipsBadValue(balances, ahm, row) ==
    LET storage_addr_felt == FromHex(row[2])
    IN  IF IsErr(storage_addr_felt) THEN balances
        ELSE IF storage_addr_felt.v \notin DOMAIN ahm THEN balances
        ELSE IF IsErr(FromHex(row[3])) THEN balances
        ELSE Insert(balances, ahm[storage_addr_felt.v], FromHex(row[3]).v)

\* a fold that files a row of an unknown slot under the slot itself
FoldRowKeepsUnknown(balances, ahm, row) ==
    LET storage_addr_felt == FromHex(row[2])
        balance_felt == IF IsOk(FromHex(row[3])) THEN FromHex(row[3]).v ELSE FeltZero
    IN  IF IsErr(storage_addr_felt) THEN balances
        ELSE IF storage_addr_felt.v \notin DOMAIN ahm
             THEN Insert(balances, storage_addr_felt.v, balance_felt)
        ELSE Insert(balances, ahm[storage_addr_felt.v], balance_felt)

\* one row of the loop of lines 137-151
FoldRow(balances, ahm, row) ==
    LET storage_addr_felt == FromHex(row[2])
        balance_felt == IF IsOk(FromHex(row[3])) THEN FromHex(row[3]).v ELSE FeltZero
    IN  IF IsErr(storage_addr_felt) THEN balances
        ELSE IF storage_addr_felt.v \notin DOMAIN ahm THEN balances
        ELSE Insert(balances, ahm[storage_addr_felt.v], balance_felt)

RECURSIVE FoldRows(_, _, _)
FoldRows(balances, ahm, rows) ==
    IF rows = <<>> THEN balances
    ELSE FoldRows(FoldRow(balances, ahm, Head(rows)), ahm, Tail(rows))

\* a fold that passes over the shards that failed
RECURSIVE FoldShardsSkipFailed(_, _, _, _, _)
FoldShardsSkipFailed(token, ahm, results, k, balances) ==
    IF k \notin DOMAIN results THEN Ok([token |-> token, balances |-> balances])
    ELSE IF IsErr(results[k]) THEN FoldShardsSkipFailed(token, ahm, results, k + 1, balances)
    ELSE FoldShardsSkipFailed(token, ahm, results, k + 1,
                              FoldRows(balances, ahm, results[k].v))

\* lines 135-154: shard results in shard index order; the first Err is returned
RECURSIVE FoldShards(_, _, _, _, _)
FoldShards(token, ahm, results, k, balances) ==
    IF k \notin DOMAIN results THEN Ok([token |-> token, balances |-> balances])
    ELSE IF IsErr(results[k]) THEN results[k]
    ELSE FoldShards(token, ahm, results, k + 1, FoldRows(balances, ahm, results[k].v))

\* balances that start from what the earlier call of the process found, for
\* all its tokens together
StaleTokenBalances ==
    IF first # None /\ IsOk(first.result)
    THEN LET m == first.result.v
         IN  [a \in UNION {DOMAIN m[u] : u \in DOMAIN m} |->
                 m[CHOOSE u \in DOMAIN m : a \in DOMAIN m[u]][a]]
    ELSE EmptyMap

\* line 135: the balances of a token start from a new, empty map
NewTokenBalances == EmptyMap

TokenResult(token, ahm, results) == FoldShards(token, ahm, results, 0, NewTokenBalances)

\* a merge that leaves out the tokens without balances
RECURSIVE MergeTokensSkipEmpty(_, _, _)
MergeTokensSkipEmpty(results, i, final_token_map) ==
    IF i \notin DOMAIN results THEN Ok(final_token_map)
    ELSE IF IsErr(results[i]) THEN results[i]
    ELSE MergeTokensSkipEmpty(results, i + 1,
                              IF results[i].v.balances = EmptyMap THEN final_token_map
                              ELSE Insert(final_token_map, results[i].v.token,
                                          results[i].v.balances))

\* a merge that returns the error of the last token that failed
RECURSIVE MergeTokensLastError(_, _, _)
MergeTokensLastError(results, i, final_token_map) ==
    IF i \notin DOMAIN results THEN Ok(final_token_map)
    ELSE IF IsErr(results[i])
         THEN IF \E j \in DOMAIN results : j > i /\ IsErr(results[j])
              THEN MergeTokensLastError(results, i + 1, final_token_map)
              ELSE results[i]
    ELSE MergeTokensLastError(results, i + 1,
                              Insert(final_token_map, results[i].v.token,
                                     results[i].v.balances))

\* lines 170-175: token results in input order; the first Err is returned
RECURSIVE MergeTokens(_, _, _)
MergeTokens(results, i, final_token_map) ==
    IF i \notin DOMAIN results THEN Ok(final_token_map)
    ELSE IF IsErr(results[i]) THEN results[i]
    ELSE MergeTokens(results, i + 1,
                     Insert(final_token_map, results[i].v.token, results[i].v.balances))

\* a hashing step in which the first account of a slot keeps it
RECURSIVE HashAccountsFirstWins(_, _, _)
HashAccountsFirstWins(accounts, i, ahm) ==
    IF i > Len(accounts) THEN ahm
    ELSE HashAccountsFirstWins(accounts, i + 1,
                               IF pedersen_hash(balances_selector, accounts[i]) \in DOMAIN ahm
                               THEN ahm
                               ELSE Insert(ahm, pedersen_hash(balances_selector, accounts[i]),
                                           accounts[i]))

\* a hashing step that leaves out the last account of the input
RECURSIVE HashAccountsButLast(_, _, _)
HashAccountsButLast(accounts, i, ahm) ==
    IF i >= Len(accounts) THEN ahm
    ELSE HashAccountsButLast(accounts, i + 1,
                             Insert(ahm, pedersen_hash(balances_selector, accounts[i]), accounts[i]))

\* lines 37-44: the (slot, account) pairs collected into a map in input order
RECURSIVE HashAccountsFrom(_, _, _)
HashAccountsFrom(accounts, i, ahm) ==
    IF i > Len(accounts) THEN ahm
    ELSE HashAccountsFrom(accounts, i + 1,
                          Insert(ahm, pedersen_hash(balances_selector, accounts[i]), accounts[i]))

\* line 56
Max(a, b) == IF a >= b THEN a ELSE b
\* a plan that rounds the shards of a token up
ShardsPerTokenRoundedUp(cores, num_tokens) ==
    Max(1, (cores + Max(1, num_tokens) - 1) \div Max(1, num_tokens))

ShardsPerToken(cores, num_tokens) == Max(1, cores \div Max(1, num_tokens))

-----------------------------------------------------------------------------
(* get_balance_map as a state machine *)

\* token_map.csv does not exist
NoFile == [exists |-> FALSE, entries |-> <<>>]

\* no writer thread has been spawned
NoWriter == [state |-> "off", batch |-> <<>>, received |-> 0, result |-> None]

\* write_results has not been called: no file is written
OutputIdle ==
    /\ token_map = EmptyMap
    /\ config = [csv |-> FALSE, json |-> FALSE, sqlite |-> FALSE]
    /\ wr_pc = "idle"
    /\ wr_result = None
    /\ attempted = <<>>
    /\ st_pc = "off"
    /\ threads = 0
    /\ todo = <<>>
    /\ blocked = <<>>
    /\ channel = <<>>
    /\ rx_open = FALSE
    /\ writer = NoWriter
    /\ csv_file = NoFile
    /\ json_file = None
    /\ db = None

\* no shard connection has been opened yet
NoConnections == [opened |-> 0, closed |-> 0]

TokenIdx == DOMAIN addresses.tokens
ShardIdx == 0..(shards_per_token - 1)

Init ==
    /\ log \in Logs
    /\ db_has_path \in BOOLEAN
    /\ addresses \in [accounts : AccountInputs, tokens : TokenInputs]
    /\ pc = "start"
    /\ accounts_hash_map = EmptyMap
    /\ shards_per_token = 0
    /\ shard_pc = <<>>
    /\ shard_results = <<>>
    /\ token_results = <<>>
    /\ result = None
    /\ num_cores = 0
    /\ first = None
    /\ connections = NoConnections
    /\ OutputIdle

\* lines 28-31: the path of the connection, or the error of a connection without one
GetDbPath ==
    /\ pc = "start"
    /\ IF db_has_path
       THEN pc' = "hash" /\ UNCHANGED result
       ELSE pc' = "done" /\ result' = Err("Database connection has no path")
    /\ UNCHANGED <<log, db_has_path, addresses, accounts_hash_map, shards_per_token,
                   shard_pc, shard_results, token_results, num_cores, first, connections, output_vars>>

\* lines 33-44
HashAccounts ==
    /\ pc = "hash"
    /\ accounts_hash_map' = HashAccountsFrom(addresses.accounts, 1, EmptyMap)
    /\ pc' = "plan"
    /\ UNCHANGED <<log, db_has_path, addresses, shards_per_token,
                   shard_pc, shard_results, token_results, result, num_cores, first, connections, output_vars>>

\* lines 52-61, and the spawning of the tasks of lines 63-75
PlanShards ==
    /\ pc = "plan"
    /\ IF num_cores = 0 THEN num_cores' \in 1..MaxCores ELSE num_cores' = num_cores
    /\ shards_per_token' = ShardsPerToken(num_cores', Len(addresses.tokens))
    /\ shard_pc' = [t \in TokenIdx |-> [k \in 0..(shards_per_token' - 1) |-> "init"]]
    /\ shard_results' = [t \in TokenIdx |-> [k \in 0..(shards_per_token' - 1) |-> None]]
    /\ token_results' = [t \in TokenIdx |-> None]
    /\ pc' = "scan"
    /\ UNCHANGED <<log, db_has_path, addresses, accounts_hash_map, result, first, connections, output_vars>>

\* messages that take a failure to collect for a failure to execute
ErrorMessageCollectAsExecute(stage) ==
    CASE stage = "failed_connect" -> "Failed to create database connection"
      [] stage = "failed_prepare" -> "Failed to prepare SQL statement"
      [] stage = "failed_execute" -> "Failed to execute query"
      [] stage = "failed_collect" -> "Failed to execute query"

\* the message of the error a shard returns, by the stage that failed
\* (lines 18, 102, 124, 129)
ErrorMessage(stage) ==
    CASE stage = "failed_connect" -> "Failed to create database connection"
      [] stage = "failed_prepare" -> "Failed to prepare SQL statement"
      [] stage = "failed_execute" -> "Failed to execute query"
      [] stage = "failed_collect" -> "Failed to collect rows"

QueryStages == {"failed_prepare", "failed_execute", "failed_collect"}
FailedStages == {"failed_connect"} \cup QueryStages

\* lines 16-19: Connection::open gives the caller a connection of its own
create_connection(c) == [c EXCEPT !.opened = @ + 1]

\* a closure that closes its connection only when it returns rows
DropShardConnOnRows(c, stage) ==
    IF stage = "done" THEN [c EXCEPT !.closed = @ + 1] ELSE c

\* line 131 and the ? of lines 102, 124, 129: shard_conn is a local of the
\* closure and is dropped when the closure returns, with rows or with an
\* error; when line 77 fails there is no connection to drop
DropShardConn(c, stage) ==
    IF stage = "failed_connect" THEN c ELSE [c EXCEPT !.closed = @ + 1]

\* the closure of a shard returns: its connection is dropped with it
ShardEnds(t, k, stage, res) ==
    /\ shard_pc' = [shard_pc EXCEPT ![t][k] = stage]
    /\ shard_results' = [shard_results EXCEPT ![t][k] = res]
    /\ connections' = DropShardConn(connections, stage)
    /\ UNCHANGED <<log, db_has_path, addresses, pc, accounts_hash_map, shards_per_token,
                   token_results, result, num_cores, first, output_vars>>

\* line 77: the shard opens its own connection
ShardConnect(t, k) ==
    /\ pc = "scan"
    /\ shard_pc[t][k] = "init"
    /\ shard_pc' = [shard_pc EXCEPT ![t][k] = "connected"]
    /\ connections' = create_connection(connections)
    /\ UNCHANGED <<log, db_has_path, addresses, pc, accounts_hash_map, shards_per_token,
                   shard_results, token_results, result, num_cores, first, output_vars>>

\* lines 16-19, 77: opening the connection fails
ShardConnectFails(t, k) ==
    /\ pc = "scan"
    /\ shard_pc[t][k] = "init"
    /\ ShardEnds(t, k, "failed_connect", Err(ErrorMessage("failed_connect")))

\* The rows the store returns to shard k of token index t.  The log is not
\* changed between two calls, and the store answers a query it has answered
\* before with the same rows.
StoreAnswers(t, k) ==
    IF /\ first # None
       /\ t \in DOMAIN first.shard_results
       /\ k \in DOMAIN first.shard_results[t]
       /\ IsOk(first.shard_results[t][k])
    THEN {first.shard_results[t][k].v}
    ELSE batch_query(log, FeltToBytes(addresses.tokens[t]), shards_per_token, k)

\* lines 100-130: the query is prepared, executed and its rows collected
ShardQuery(t, k) ==
    /\ pc = "scan"
    /\ shard_pc[t][k] = "connected"
    /\ \E all_rows \in StoreAnswers(t, k) : ShardEnds(t, k, "done", Ok(all_rows))

\* lines 102, 124, 129: preparing, executing or collecting fails
ShardQueryFails(t, k) ==
    /\ pc = "scan"
    /\ shard_pc[t][k] = "connected"
    /\ \E stage \in QueryStages : ShardEnds(t, k, stage, Err(ErrorMessage(stage)))

ShardFinished(t, k) == shard_pc[t][k] \in {"done"} \cup FailedStages

\* a fold that starts on the rows of the shards finished so far
FoldTokenStreamed(t) ==
    /\ pc = "scan"
    /\ token_results[t] = None
    /\ \E k \in ShardIdx : shard_results[t][k] # None
    /\ token_results' = [token_results EXCEPT
                           ![t] = TokenResult(addresses.tokens[t], accounts_hash_map,
                                              [k \in ShardIdx |->
                                                  IF shard_results[t][k] = None THEN Ok(<<>>)
                                                  ELSE shard_results[t][k]])]
    /\ UNCHANGED <<log, db_has_path, addresses, pc, accounts_hash_map, shards_per_token,
                   shard_pc, shard_results, result, num_cores, first, connections, output_vars>>

\* lines 132-154: once the shards of the token are collected, their rows are folded
FoldToken(t) ==
    /\ pc = "scan"
    /\ token_results[t] = None
    /\ \A k \in ShardIdx : ShardFinished(t, k)
    /\ token_results' = [token_results EXCEPT
                           ![t] = TokenResult(addresses.tokens[t], accounts_hash_map, shard_results[t])]
    /\ UNCHANGED <<log, db_has_path, addresses, pc, accounts_hash_map, shards_per_token,
                   shard_pc, shard_results, result, num_cores, first, connections, output_vars>>

\* a merge that returns the error of a token without waiting for the others
MergeResultsAtFirstError ==
    /\ pc = "scan"
    /\ \/ /\ \A t \in TokenIdx : token_results[t] # None
          /\ result' = MergeTokens(token_results, 1, EmptyMap)
       \/ \E t \in TokenIdx : /\ token_results[t] # None
                               /\ IsErr(token_results[t])
                               /\ result' = token_results[t]
    /\ pc' = "done"
    /\ UNCHANGED <<log, db_has_path, addresses, accounts_hash_map, shards_per_token,
                   shard_pc, shard_results, token_results, num_cores, first, connections, output_vars>>

\* lines 156-191: once every token is collected, the token results are merged
MergeResults ==
    /\ pc = "scan"
    /\ \A t \in TokenIdx : token_results[t] # None
    /\ result' = MergeTokens(token_results, 1, EmptyMap)
    /\ pc' = "done"
    /\ UNCHANGED <<log, db_has_path, addresses, accounts_hash_map, shards_per_token,
                   shard_pc, shard_results, token_results, num_cores, first, connections, output_vars>>

\* lines 21-24: get_balance_map is called again in the same process, on the
\* same log and with the same addresses; its locals are new
CallAgain ==
    /\ pc = "done"
    /\ first = None
    /\ first' = [result |-> result, shard_results |-> shard_results]
    /\ pc' = "start"
    /\ accounts_hash_map' = EmptyMap
    /\ shards_per_token' = 0
    /\ shard_pc' = <<>>
    /\ shard_results' = <<>>
    /\ token_results' = <<>>
    /\ result' = None
    /\ connections' = NoConnections
    /\ UNCHANGED <<log, db_has_path, addresses, num_cores, output_vars>>

Next ==
    \/ GetDbPath
    \/ HashAccounts
    \/ PlanShards
    \/ \E t \in TokenIdx : \E k \in ShardIdx : ShardConnect(t, k)
    \/ \E t \in TokenIdx : \E k \in ShardIdx : ShardConnectFails(t, k)
    \/ \E t \in TokenIdx : \E k \in ShardIdx : ShardQuery(t, k)
    \/ \E t \in TokenIdx : \E k \in ShardIdx : ShardQueryFails(t, k)
    \/ \E t \in TokenIdx : FoldToken(t)
    \/ MergeResults

Spec == Init /\ [][Next]_vars

\* Two calls in a row on a file database, with two tokens, on the logs whose
\* rows are writes of block 1 at the storage address ids 1 and 2
InitTwice ==
    /\ Init
    /\ db_has_path
    /\ addresses.tokens = <<21, 22>>
    /\ \A r \in log : r.block = 1 /\ r.sid \in {1, 2}

NextTwice == Next \/ CallAgain

SpecTwice == InitTwice /\ [][NextTwice]_vars

\* Runs for one token on the logs of up to MaxUpdates + 1 writes to contract 1
\* at the storage address ids 1 and 2, in which two writes have the greatest
\* block number of the log
TieRows ==
    [cid : {1}, sid : {1, 2},
     val : {FeltToBytes(1000), FeltToBytes(2000), FeltToBytes(3000)}, block : 1..MaxBlock]

TieLogs ==
    {l \in SubsetsUpTo(TieRows, MaxUpdates + 1) :
        \E r, q \in l : /\ r # q
                        /\ r.block = q.block
                        /\ \A w \in l : w.block <= r.block}

InitTie ==
    /\ log \in TieLogs
    /\ db_has_path = TRUE
    /\ addresses \in [accounts : AccountInputs, tokens : {<<21>>}]
    /\ pc = "start"
    /\ accounts_hash_map = EmptyMap
    /\ shards_per_token = 0
    /\ shard_pc = <<>>
    /\ shard_results = <<>>
    /\ token_results = <<>>
    /\ result = None
    /\ num_cores = 0
    /\ first = None
    /\ connections = NoConnections
    /\ OutputIdle

SpecTie == InitTie /\ [][Next]_vars

\* Runs for one token on the logs of up to MaxUpdates writes to contract 1 at
\* the storage address ids -1, 1 and 3
NegRows ==
    [cid : {1}, sid : {-1, 1, 3}, val : {FeltToBytes(1000), FeltToBytes(2000)},
     block : 1..MaxBlock]

InitNeg ==
    /\ log \in SubsetsUpTo(NegRows, MaxUpdates)
    /\ db_has_path = TRUE
    /\ addresses \in [accounts : AccountInputs, tokens : {<<21>>}]
    /\ pc = "start"
    /\ accounts_hash_map = EmptyMap
    /\ shards_per_token = 0
    /\ shard_pc = <<>>
    /\ shard_results = <<>>
    /\ token_results = <<>>
    /\ result = None
    /\ num_cores = 0
    /\ first = None
    /\ connections = NoConnections
    /\ OutputIdle

SpecNeg == InitNeg /\ [][Next]_vars

\* Runs for one and for two tokens on the logs of up to MaxUpdates writes of
\* block 1 to the contracts 1 and 2 at the storage address ids 1 and 2
ScanRows ==
    [cid : {1, 2}, sid : {1, 2}, val : {FeltToBytes(1000), FeltToBytes(2000)}, block : {1}]

InitScan ==
    /\ log \in SubsetsUpTo(ScanRows, MaxUpdates)
    /\ db_has_path = TRUE
    /\ addresses \in [accounts : AccountInputs, tokens : TokenInputs]
    /\ pc = "start"
    /\ accounts_hash_map = EmptyMap
    /\ shards_per_token = 0
    /\ shard_pc = <<>>
    /\ shard_results = <<>>
    /\ token_results = <<>>
    /\ result = None
    /\ num_cores = 0
    /\ first = None
    /\ connections = NoConnections
    /\ OutputIdle

SpecScan == InitScan /\ [][Next]_vars

\* Runs for one token with two requested accounts, 11 and 262, that have the
\* same slot, on the logs of up to MaxUpdates writes to contract 1 at the
\* storage address ids 1 (that slot) and 3 (the slot of account 12)
CollidingInputs == {<<11, 262>>, <<262, 11>>, <<11, 262, 12>>, <<262, 12, 11>>}

CollideRows ==
    [cid : {1}, sid : {1, 3}, val : {FeltToBytes(1000), FeltToBytes(2000)}, block : 1..MaxBlock]

InitCollide ==
    /\ log \in SubsetsUpTo(CollideRows, MaxUpdates)
    /\ db_has_path = TRUE
    /\ addresses \in [accounts : CollidingInputs, tokens : {<<21>>}]
    /\ pc = "start"
    /\ accounts_hash_map = EmptyMap
    /\ shards_per_token = 0
    /\ shard_pc = <<>>
    /\ shard_results = <<>>
    /\ token_results = <<>>
    /\ result = None
    /\ num_cores = 0
    /\ first = None
    /\ connections = NoConnections
    /\ OutputIdle

SpecCollide == InitCollide /\ [][Next]_vars

\* The hashing step alone, on every sequence of at most MaxAccounts accounts
\* drawn with repetition from three accounts, two of which have the same slot
HashedAccounts == {11, 12, 262}

RECURSIVE SeqsUpTo(_, _)
SeqsUpTo(S, n) ==
    IF n = 0 THEN {<<>>}
    ELSE LET shorter == SeqsUpTo(S, n - 1)
         IN  shorter \cup {Append(q, x) : q \in shorter, x \in S}

InitHash ==
    /\ log = {}
    /\ db_has_path \in BOOLEAN
    /\ addresses \in [accounts : SeqsUpTo(HashedAccounts, MaxAccounts), tokens : {<<21>>}]
    /\ pc = "start"
    /\ accounts_hash_map = EmptyMap
    /\ shards_per_token = 0
    /\ shard_pc = <<>>
    /\ shard_results = <<>>
    /\ token_results = <<>>
    /\ result = None
    /\ num_cores = 0
    /\ first = None
    /\ connections = NoConnections
    /\ OutputIdle

NextHash == GetDbPath \/ HashAccounts

SpecHash == InitHash /\ [][NextHash]_vars

\* The steps up to the plan of the shards, for every sequence of at most
\* MaxTokens tokens, the empty one included, and 1..MaxPlanCores threads
InitPlan ==
    /\ log = {}
    /\ db_has_path \in BOOLEAN
    /\ addresses \in [accounts : {<<>>, <<11, 12>>}, tokens : SeqsUpTo({21, 22}, MaxTokens)]
    /\ pc = "start"
    /\ accounts_hash_map = EmptyMap
    /\ shards_per_token = 0
    /\ shard_pc = <<>>
    /\ shard_results = <<>>
    /\ token_results = <<>>
    /\ result = None
    /\ num_cores \in 1..MaxPlanCores
    /\ first = None
    /\ connections = NoConnections
    /\ OutputIdle

NextPlan == GetDbPath \/ HashAccounts \/ PlanShards

SpecPlan == InitPlan /\ [][NextPlan]_vars

-----------------------------------------------------------------------------
(* The output writers of src/output.rs: records, batches and the channel *)

\* bounded::<Vec<...>>(64): the channel holds at most 64 batches
ChannelCapacity == 64

\* format!("{token:#064x}"): the felt as "0x" and 64 zero-padded hex digits
FormatHex(f) == [prefix |-> "0x", digits |-> HexWidth, value |-> f]

\* balance.to_string(): the felt in decimal
to_string(f) == [radix |-> 10, value |-> f]

\* the record of one entry of the mapping: token, account, balance as text
Record(token, account, balance) ==
    <<FormatHex(token), FormatHex(account), to_string(balance)>>

\* wtr.write_record(["Token", "Account", "Balance"]), written by the main thread
Header == [by |-> "main", record |-> <<"Token", "Account", "Balance">>]

\* the records a producer builds from the sub-map of a token
Records(map, token) == {Record(token, a, map[token][a]) : a \in DOMAIN map[token]}

\* token_map.par_iter(): one batch to build per token, taken in any order; two
\* tokens with an empty sub-map give two empty batches
Batches(map) ==
    [b \in {Records(map, t) : t \in DOMAIN map} |->
        Cardinality({t \in DOMAIN map : Records(map, t) = b})]

\* OutputConfig::has_any_output
has_any_output(c) == c.csv \/ c.json \/ c.sqlite

\* the order in which write_results looks at the formats
FormatOrder == <<"csv", "json", "sqlite">>

FormatIndex(f) == CHOOSE i \in 1..3 : FormatOrder[i] = f

\* a write_results that calls every later writer, selected or not
NextFormatIgnoresConfig(c, i) ==
    IF i >= 3 THEN "done" ELSE FormatOrder[i + 1]

\* write_results after the i-th format (0: at the start): the next format
\* whose flag is set, or "done" when there is none
NextFormat(c, i) ==
    LET later == {j \in (i + 1)..3 : c[FormatOrder[j]]}
    IN  IF later = {} THEN "done"
        ELSE FormatOrder[CHOOSE j \in later : \A k \in later : j <= k]

\* a channel without a capacity
HasRoomUnbounded(ch) == TRUE

\* tx.send does not block: fewer than 64 batches are in the channel
HasRoom(ch) == Len(ch) < ChannelCapacity

\* a send that keeps waiting for room after the receiver is gone
SendOutcomeNeverFails(ch, open) ==
    IF HasRoom(ch) /\ open THEN "sent" ELSE "blocked"

\* tx.send(batch): Err when the receiver is dropped, otherwise the batch is
\* queued when there is room and the sender blocks when there is none
SendOutcome(ch, open) ==
    IF ~open THEN "failed"
    ELSE IF HasRoom(ch) THEN "sent"
    ELSE "blocked"

\* a writer that writes the first record after the header only
WriteRecordOnce(file, rec) ==
    IF Len(file.entries) >= 2 THEN file
    ELSE [file EXCEPT !.entries = Append(@, [by |-> "writer", record |-> rec])]

\* wtr.write_record(&record) in the writer thread
WriteRecord(file, rec) == [file EXCEPT !.entries = Append(@, [by |-> "writer", record |-> rec])]

\* stmt.execute(params![token, account, balance]) inside the transaction
InsertRow(d, rec) == [d EXCEPT !.pending = Append(@, rec)]

\* a failed writer whose inserted rows stay in the table
RollbackKeepsRows(d) == [committed |-> d.committed \o d.pending, pending |-> <<>>]

\* the transaction is dropped without commit: its rows are rolled back
Rollback(d) == [d EXCEPT !.pending = <<>>]

\* tx_sql.commit()
Commit(d) == [committed |-> d.committed \o d.pending, pending |-> <<>>]

\* a bag with one more, or one fewer, copy of the batch b
BagAdd(bag, b) ==
    [x \in (DOMAIN bag) \cup {b} |-> IF x \in DOMAIN bag
                                     THEN bag[x] + (IF x = b THEN 1 ELSE 0)
                                     ELSE 1]
BagRemove(bag, b) ==
    [x \in {y \in DOMAIN bag : y # b \/ bag[y] > 1} |->
        IF x = b THEN bag[x] - 1 ELSE bag[x]]

RECURSIVE BagSize(_)
BagSize(bag) ==
    IF DOMAIN bag = {} THEN 0
    ELSE LET b == CHOOSE x \in DOMAIN bag : TRUE
         IN  bag[b] + BagSize([x \in (DOMAIN bag) \ {b} |-> bag[x]])

-----------------------------------------------------------------------------
(* write_results and its writers as a state machine *)

\* write_results returns the error of a writer: the CSV and JSON errors are
\* wrapped, the SQLite error is passed on
MapErr(f, e) ==
    IF f = "csv" THEN Err(<<"Failed to store map as CSV", e>>)
    ELSE IF f = "json" THEN Err(<<"Failed to store map as JSON", e>>)
    ELSE Err(e)

\* write_results calls the writer of format f
Called(att, f) == Append(att, [format |-> f, result |-> None])

\* the writer of format f, the last of the calls att, has returned r: `?` ends
\* write_results on an error, otherwise write_results goes on with the next
\* selected format
StoreReturns(f, r, att) ==
    /\ attempted' = [att EXCEPT ![Len(att)].result = r]
    /\ IF IsErr(r)
       THEN /\ wr_pc' = "done"
            /\ wr_result' = MapErr(f, r.e)
       ELSE LET n == NextFormat(config, FormatIndex(f))
            IN  /\ wr_pc' = n
                /\ wr_result' = IF n = "done" THEN Ok(<<>>) ELSE None

\* the writer thread as spawned, and as ended with result r
WriterAt(state) == [state |-> state, batch |-> <<>>, received |-> 0, result |-> None]
WriterEnded(w, r) == [state |-> "ended", batch |-> <<>>, received |-> w.received, result |-> r]

\* the table token_map of the file the connection has opened: a file that
\* did not exist is created with an empty table
Opened(d) == IF d = None THEN [committed |-> <<>>, pending |-> <<>>] ELSE d

\* write_results up to its first writer
WriteResultsStart ==
    /\ wr_pc = "start"
    /\ IF ~has_any_output(config)
       THEN /\ wr_pc' = "done"
            /\ wr_result' = Ok(<<>>)
       ELSE /\ wr_pc' = NextFormat(config, 0)
            /\ wr_result' = None
    /\ UNCHANGED <<balance_vars, token_map, config, attempted, st_pc, threads, todo,
                   blocked, channel, rx_open, writer, csv_file, json_file, db>>

\* store_map_as_csv up to the spawn of the writer thread
CsvCreate ==
    /\ wr_pc = "csv"
    /\ st_pc = "off"
    /\ \/ /\ StoreReturns("csv", Err("File::create"), Called(attempted, "csv"))
          /\ UNCHANGED <<st_pc, todo, blocked, channel, rx_open, writer, csv_file>>
       \/ /\ StoreReturns("csv", Err("write_record"), Called(attempted, "csv"))
          /\ csv_file' = [exists |-> TRUE, entries |-> <<>>]
          /\ UNCHANGED <<st_pc, todo, blocked, channel, rx_open, writer>>
       \/ /\ csv_file' = [exists |-> TRUE, entries |-> <<Header>>]
          /\ channel' = <<>>
          /\ rx_open' = TRUE
          /\ writer' = WriterAt("loop")
          /\ todo' = Batches(token_map)
          /\ blocked' = <<>>
          /\ st_pc' = "producing"
          /\ attempted' = Called(attempted, wr_pc)
          /\ UNCHANGED <<wr_pc, wr_result>>
    /\ UNCHANGED <<balance_vars, token_map, config, threads, json_file, db>>

\* store_map_in_sqlite up to the spawn of the writer thread
SqliteOpen ==
    /\ wr_pc = "sqlite"
    /\ st_pc = "off"
    /\ \/ /\ StoreReturns("sqlite", Err("Failed to open SQLite database"), Called(attempted, "sqlite"))
          /\ UNCHANGED <<st_pc, todo, blocked, channel, rx_open, writer, db>>
       \/ /\ \E e \in {"Failed to apply PRAGMAs", "Failed to create table"} :
                StoreReturns("sqlite", Err(e), Called(attempted, "sqlite"))
          /\ db' = Opened(db)
          /\ UNCHANGED <<st_pc, todo, blocked, channel, rx_open, writer>>
       \/ /\ db' = Opened(db)
          /\ channel' = <<>>
          /\ rx_open' = TRUE
          /\ writer' = WriterAt("begin")
          /\ todo' = Batches(token_map)
          /\ blocked' = <<>>
          /\ st_pc' = "producing"
          /\ attempted' = Called(attempted, wr_pc)
          /\ UNCHANGED <<wr_pc, wr_result>>
    /\ UNCHANGED <<balance_vars, token_map, config, threads, csv_file, json_file>>

\* store_map_as_json
JsonStore ==
    /\ wr_pc = "json"
    /\ \/ /\ StoreReturns("json", Err("File::create"), Called(attempted, "json"))
          /\ UNCHANGED json_file
       \/ /\ StoreReturns("json", Err("to_writer_pretty"), Called(attempted, "json"))
          /\ json_file' = [pretty |-> TRUE, complete |-> FALSE, map |-> EmptyMap]
       \/ /\ StoreReturns("json", Ok(<<>>), Called(attempted, "json"))
          /\ json_file' = [pretty |-> TRUE, complete |-> TRUE, map |-> token_map]
    /\ UNCHANGED <<balance_vars, token_map, config, st_pc, threads, todo, blocked,
                   channel, rx_open, writer, csv_file, db>>

\* a free thread of the pool takes a token, builds its batch (the records of
\* the sub-map in the order the sub-map yields them) and sends it
ProducerSend ==
    /\ st_pc = "producing"
    /\ BagSize(blocked) < threads
    /\ \E b \in DOMAIN todo : \E batch \in Orderings(b) :
        LET o == SendOutcome(channel, rx_open)
        IN  /\ todo' = BagRemove(todo, b)
            /\ channel' = IF o = "sent" THEN Append(channel, batch) ELSE channel
            /\ blocked' = IF o = "blocked" THEN BagAdd(blocked, batch) ELSE blocked
    /\ UNCHANGED <<balance_vars, token_map, config, wr_pc, wr_result, attempted, st_pc,
                   threads, rx_open, writer, csv_file, json_file, db>>

\* a producer blocked in tx.send goes on: its batch is queued once there is
\* room, and its send fails, the error ignored, once the receiver is dropped
ProducerUnblocked ==
    /\ st_pc = "producing"
    /\ \E batch \in DOMAIN blocked :
        LET o == SendOutcome(channel, rx_open)
        IN  /\ o # "blocked"
            /\ blocked' = BagRemove(blocked, batch)
            /\ channel' = IF o = "sent" THEN Append(channel, batch) ELSE channel
    /\ UNCHANGED <<balance_vars, token_map, config, wr_pc, wr_result, attempted, st_pc,
                   threads, todo, rx_open, writer, csv_file, json_file, db>>

\* for_each has returned: drop(tx), the main thread goes to join the writer
DropTx ==
    /\ st_pc = "producing"
    /\ todo = <<>>
    /\ blocked = <<>>
    /\ st_pc' = "joining"
    /\ UNCHANGED <<balance_vars, token_map, config, wr_pc, wr_result, attempted, threads,
                   todo, blocked, channel, rx_open, writer, csv_file, json_file, db>>

\* the writer thread ends with the error e: rx and the batches still in the
\* channel are dropped, and so is the transaction of the SQLite writer
WriterFails(e) ==
    /\ writer' = WriterEnded(writer, Err(e))
    /\ rx_open' = FALSE
    /\ channel' = <<>>
    /\ db' = IF wr_pc = "sqlite" THEN Rollback(db) ELSE db
    /\ UNCHANGED csv_file

\* the SQLite writer thread begins its transaction and prepares the insert
SqliteBegin ==
    /\ st_pc # "off"
    /\ writer.state = "begin"
    /\ \/ /\ writer' = [writer EXCEPT !.state = "loop"]
          /\ UNCHANGED <<channel, rx_open, csv_file, db>>
       \/ \E e \in {"Failed to begin transaction", "Failed to prepare insert statement"} :
            WriterFails(e)
    /\ UNCHANGED <<balance_vars, token_map, config, wr_pc, wr_result, attempted, st_pc,
                   threads, todo, blocked, json_file>>

\* for batch in rx: the writer thread receives the oldest batch of the channel
WriterTake ==
    /\ st_pc # "off"
    /\ writer.state = "loop"
    /\ writer.batch = <<>>
    /\ channel # <<>>
    /\ writer' = [writer EXCEPT !.batch = Head(channel), !.received = @ + 1]
    /\ channel' = Tail(channel)
    /\ UNCHANGED <<balance_vars, token_map, config, wr_pc, wr_result, attempted, st_pc,
                   threads, todo, blocked, rx_open, csv_file, json_file, db>>

\* for record in batch: the writer thread writes, or inserts, the next record
WriterWrite ==
    /\ st_pc # "off"
    /\ writer.state = "loop"
    /\ writer.batch # <<>>
    /\ \/ /\ writer' = [writer EXCEPT !.batch = Tail(@)]
          /\ IF wr_pc = "csv"
             THEN /\ csv_file' = WriteRecord(csv_file, Head(writer.batch))
                  /\ UNCHANGED db
             ELSE /\ db' = InsertRow(db, Head(writer.batch))
                  /\ UNCHANGED csv_file
          /\ UNCHANGED <<channel, rx_open>>
       \/ WriterFails(IF wr_pc = "csv" THEN "write_record" ELSE "Failed to insert row")
    /\ UNCHANGED <<balance_vars, token_map, config, wr_pc, wr_result, attempted, st_pc,
                   threads, todo, blocked, json_file>>

\* the channel is empty and every sender is dropped: the loop ends, the CSV
\* writer flushes and the SQLite writer commits
WriterFinish ==
    /\ st_pc = "joining"
    /\ writer.state = "loop"
    /\ writer.batch = <<>>
    /\ channel = <<>>
    /\ \/ /\ writer' = WriterEnded(writer, Ok(<<>>))
          /\ rx_open' = FALSE
          /\ db' = IF wr_pc = "sqlite" THEN Commit(db) ELSE db
          /\ UNCHANGED <<channel, csv_file>>
       \/ WriterFails(IF wr_pc = "csv" THEN "flush" ELSE "Failed to commit transaction")
    /\ UNCHANGED <<balance_vars, token_map, config, wr_pc, wr_result, attempted, st_pc,
                   threads, todo, blocked, json_file>>

\* writer_handle.join(): the writer returns the result of the writer thread
Join ==
    /\ st_pc = "joining"
    /\ writer.state = "ended"
    /\ st_pc' = "off"
    /\ StoreReturns(wr_pc, writer.result, attempted)
    /\ UNCHANGED <<balance_vars, token_map, config, threads, todo, blocked,
                   channel, rx_open, writer, csv_file, json_file, db>>

\* the steps of a channel writer, and all steps of write_results
NextStore ==
    \/ WriteResultsStart
    \/ CsvCreate
    \/ SqliteOpen
    \/ ProducerSend
    \/ ProducerUnblocked
    \/ DropTx
    \/ SqliteBegin
    \/ WriterTake
    \/ WriterWrite
    \/ WriterFinish
    \/ Join

NextOut == NextStore \/ JsonStore

\* get_balance_map has not been called
BalanceIdle ==
    /\ log = {}
    /\ db_has_path = FALSE
    /\ addresses = [accounts |-> <<>>, tokens |-> <<>>]
    /\ pc = "start"
    /\ accounts_hash_map = EmptyMap
    /\ shards_per_token = 0
    /\ shard_pc = <<>>
    /\ shard_results = <<>>
    /\ token_results = <<>>
    /\ result = None
    /\ num_cores = 0
    /\ first = None
    /\ connections = NoConnections

\* a row an earlier run has committed to token_map.db
OldRow == Record(20, 10, 1)

\* the files before the call: no CSV and no JSON file, and a database that
\* does not exist or holds the row of an earlier run
FilesBefore ==
    /\ csv_file = NoFile
    /\ json_file = None
    /\ db \in {None, [committed |-> <<OldRow>>, pending |-> <<>>]}

\* the sub-maps and the mappings of the small runs: at most two tokens, each
\* with no, one or two accounts
SubMaps == {EmptyMap, (11 :> 5), (11 :> 5) @@ (12 :> 0)}
SmallMaps == UNION {[T -> SubMaps] : T \in SUBSET {21, 22}}

\* the mappings of the large runs: more tokens than the channel and the
\* blocked producers can hold, all with an empty sub-map but at most one
LargeTokens == 1..(ChannelCapacity + MaxCores + 1)
LargeMaps ==
    {[t \in LargeTokens |-> IF t = full THEN (11 :> 5) ELSE EmptyMap] : full \in {0, 1}}
LargeEmptyMap == [t \in LargeTokens |-> EmptyMap]

\* write_results called with any selection of formats on a small mapping or
\* on the large mapping of empty sub-maps
InitOut ==
    /\ BalanceIdle
    /\ token_map \in SmallMaps \cup {LargeEmptyMap}
    /\ config \in [csv : BOOLEAN, json : BOOLEAN, sqlite : BOOLEAN]
    /\ wr_pc = "start"
    /\ wr_result = None
    /\ attempted = <<>>
    /\ st_pc = "off"
    /\ threads \in 1..MaxCores
    /\ todo = <<>>
    /\ blocked = <<>>
    /\ channel = <<>>
    /\ rx_open = FALSE
    /\ writer = NoWriter
    /\ FilesBefore

SpecOut == InitOut /\ [][NextOut]_vars

\* write_results called on a large mapping with one of the channel writers
InitChannel ==
    /\ BalanceIdle
    /\ token_map \in LargeMaps
    /\ config \in {[csv |-> TRUE, json |-> FALSE, sqlite |-> FALSE],
                   [csv |-> FALSE, json |-> FALSE, sqlite |-> TRUE]}
    /\ wr_pc = "start"
    /\ wr_result = None
    /\ attempted = <<>>
    /\ st_pc = "off"
    /\ threads \in 1..MaxCores
    /\ todo = <<>>
    /\ blocked = <<>>
    /\ channel = <<>>
    /\ rx_open = FALSE
    /\ writer = NoWriter
    /\ FilesBefore

SpecChannel == InitChannel /\ [][NextStore]_vars

\* The large runs with a full pool and a new database, under a scheduler
\* that lets some thread take a step as long as one can
InitChannelFair ==
    /\ InitChannel
    /\ threads = MaxCores
    /\ db = None

SpecChannelFair == InitChannelFair /\ [][NextStore]_vars /\ WF_vars(NextStore)

-----------------------------------------------------------------------------
(* What the claims speak of *)

Done == pc = "done"
Succeeded == pc = "done" /\ IsOk(result)
RequestedTokens == {addresses.tokens[t] : t \in TokenIdx}
RequestedAccounts == {addresses.accounts[i] : i \in DOMAIN addresses.accounts}

\* the balance a storage_value blob is read as (line 149)
DecodeValue(val) == IF IsOk(FromHex(val)) THEN FromHex(val).v ELSE FeltZero

\* the writes the log holds for contract `token` at the slot of `account`
WritesAt(l, token, account) ==
    {r \in l : /\ contract_addresses[r.cid] = FeltToBytes(token)
               /\ FromHex(storage_addresses[r.sid]) = Ok(Slot(account))}

LatestWrites(writes) == {r \in writes : \A q \in writes : q.block <= r.block}

\* no two writes of the log to one contract and slot have the same block number
NoVersionTie(l) ==
    \A r, q \in l :
        (/\ contract_addresses[r.cid] = contract_addresses[q.cid]
         /\ storage_addresses[r.sid] = storage_addresses[q.sid]
         /\ r.block = q.block) => r = q

\* every value of the log parses as a felt
ValuesParse(l) == \A r \in l : IsOk(FromHex(r.val))

\* the rows collected for token index t, in the order the fold reads them
RECURSIVE RowsFrom(_, _)
RowsFrom(results, k) ==
    IF k \notin DOMAIN results THEN <<>>
    ELSE (IF IsOk(results[k]) THEN results[k].v ELSE <<>>) \o RowsFrom(results, k + 1)

CollectedRows(t) == RowsFrom(shard_results[t], 0)

\* the requested account whose slot a row is at, as a set of at most one account
RowAccounts(row) ==
    {a \in RequestedAccounts : FromHex(row[2]) = Ok(Slot(a))}

AnyShardFailed == \E t \in DOMAIN shard_results : \E k \in DOMAIN shard_results[t] :
                      IsErr(shard_results[t][k])

-----------------------------------------------------------------------------
(* C1: for every requested token T and account A with a write in the log   *)
(* for contract T at slot Hash(selector, A), a successful get_balance_map  *)
(* returns for (T, A) the value of a write of the greatest block number    *)
(* among these writes.  Stated on the logs whose values all parse.         *)
C1_LatestWriteReturned ==
    (Succeeded /\ ValuesParse(log)) =>
        \A token \in RequestedTokens : \A account \in RequestedAccounts :
            LET writes == WritesAt(log, token, account)
            IN  writes # {} =>
                  /\ account \in DOMAIN result.v[token]
                  /\ \E r \in LatestWrites(writes) :
                        result.v[token][account] = DecodeValue(r.val)

(* C2: when the rows collected from the shards of a token hold two         *)
(* observations of one slot with different versions, the balance map of    *)
(* the token ends with the value of an observation of the highest version  *)
(* collected for that slot.  Stated on the logs whose values all parse.    *)
C2_HigherVersionKept ==
    \A t \in DOMAIN token_results :
        (IsOk(token_results[t]) /\ ValuesParse(log)) =>
            LET rows == CollectedRows(t)
            IN  \A i, j \in DOMAIN rows : \A a \in RowAccounts(rows[i]) :
                    (a \in RowAccounts(rows[j]) /\ rows[i][4] < rows[j][4]) =>
                        \E m \in DOMAIN rows :
                            /\ a \in RowAccounts(rows[m])
                            /\ \A n \in DOMAIN rows :
                                   a \in RowAccounts(rows[n]) => rows[n][4] <= rows[m][4]
                            /\ token_results[t].v.balances[a] = DecodeValue(rows[m][3])

(* C3: a successful get_balance_map returns a mapping whose keys are       *)
(* exactly the requested tokens, a token without rows in the log included. *)
C3_EveryTokenPresent ==
    Succeeded => DOMAIN result.v = RequestedTokens

C3_Witness ==
    /\ Succeeded
    /\ \E token \in RequestedTokens :
          /\ \A r \in log : contract_addresses[r.cid] # FeltToBytes(token)
          /\ result.v[token] = EmptyMap
    /\ \E token \in RequestedTokens : result.v[token] # EmptyMap

-----------------------------------------------------------------------------
(* The mapping of a whole run on given shard results, and the shard        *)
(* results a run on n shards per token may collect when no shard fails     *)

Resolve(addr, results) ==
    MergeTokens([t \in DOMAIN addr.tokens |->
                    TokenResult(addr.tokens[t],
                                HashAccountsFrom(addr.accounts, 1, EmptyMap), results[t])],
                1, EmptyMap)

ScanOutcomes(l, addr, n) ==
    LET answers(t, k) == batch_query(l, FeltToBytes(addr.tokens[t]), n, k)
        any == UNION {answers(t, k) : t \in DOMAIN addr.tokens, k \in 0..(n - 1)}
    IN  {o \in [DOMAIN addr.tokens -> [0..(n - 1) -> {Ok(rows) : rows \in any}]] :
            \A t \in DOMAIN addr.tokens : \A k \in 0..(n - 1) : o[t][k].v \in answers(t, k)}

-----------------------------------------------------------------------------
(* C4: for a fixed log and fixed inputs, a run with N >= 2 shards per      *)
(* token returns the mapping a run with 1 shard per token returns.  The    *)
(* logs with two writes of the same block number to one slot, or with a    *)
(* value that does not parse, are left out.                                *)
C4_OneShardSameAsMany ==
    (Succeeded /\ shards_per_token >= 2 /\ NoVersionTie(log) /\ ValuesParse(log)) =>
        \A o \in ScanOutcomes(log, addresses, 1) : Resolve(addresses, o) = result

(* C5: every account key of the returned mapping is a requested account,   *)
(* and rows at slots of no requested account do not make the run fail: a   *)
(* run of a file database in which no shard fails succeeds.                *)
C5_OnlyRequestedAccounts ==
    Done =>
        /\ IsOk(result) =>
              \A token \in DOMAIN result.v : DOMAIN result.v[token] \subseteq RequestedAccounts
        /\ (db_has_path /\ ~AnyShardFailed) => IsOk(result)

\* a successful run that collected a row at the slot of an account that is not
\* requested and a row whose storage address does not parse
C5_Witness ==
    /\ Succeeded
    /\ \E t \in TokenIdx : \E i, j \in DOMAIN CollectedRows(t) :
          /\ IsErr(FromHex(CollectedRows(t)[i][2]))
          /\ IsOk(FromHex(CollectedRows(t)[j][2]))
          /\ RowAccounts(CollectedRows(t)[j]) = {}

(* C6: if a shard of a token fails, get_balance_map returns an error and   *)
(* no mapping, whatever the other shards and tokens did.                   *)
C6_ShardFailureAborts ==
    (Done /\ AnyShardFailed) => IsErr(result)

\* one shard failed and every other shard, of another token too, returned rows
C6_Witness ==
    /\ Done
    /\ IsErr(result)
    /\ \E t \in TokenIdx : \E k \in ShardIdx :
          /\ IsErr(shard_results[t][k])
          /\ \A u \in TokenIdx : \A j \in ShardIdx :
                 <<u, j>> # <<t, k>> => IsOk(shard_results[u][j])
          /\ \E u \in TokenIdx : u # t /\ IsOk(token_results[u])
                                  /\ token_results[u].v.balances # EmptyMap


-----------------------------------------------------------------------------
RemoveAt(seq, i) == [j \in 1..(Len(seq) - 1) |-> IF j < i THEN seq[j] ELSE seq[j + 1]]

\* row i of shard k is the last row the fold of token index t reads for account a
WinningRow(t, k, i, a) ==
    /\ IsOk(shard_results[t][k])
    /\ i \in DOMAIN shard_results[t][k].v
    /\ a \in RowAccounts(shard_results[t][k].v[i])
    /\ \A j \in DOMAIN shard_results[t][k].v :
          j > i => a \notin RowAccounts(shard_results[t][k].v[j])
    /\ \A m \in ShardIdx : m > k =>
          \A j \in DOMAIN shard_results[t][m].v : a \notin RowAccounts(shard_results[t][m].v[j])

UnparseableWinner(t, k, i, a) ==
    WinningRow(t, k, i, a) /\ IsErr(FromHex(shard_results[t][k].v[i][3]))

SameEntry(m1, m2, key) ==
    /\ key \in DOMAIN m1 <=> key \in DOMAIN m2
    /\ key \in DOMAIN m1 => m1[key] = m2[key]

C8_RowOrderIrrelevant ==
    (Succeeded /\ NoVersionTie(log) /\ ValuesParse(log)) =>
        \A o \in ScanOutcomes(log, addresses, shards_per_token) :
            Resolve(addresses, o) = result

C11_SlotTableOfAccounts ==
    pc = "plan" =>
        /\ DOMAIN accounts_hash_map = {Slot(a) : a \in RequestedAccounts}
        /\ \A slot \in DOMAIN accounts_hash_map :
               /\ accounts_hash_map[slot] \in RequestedAccounts
               /\ Slot(accounts_hash_map[slot]) = slot
        /\ Cardinality(DOMAIN accounts_hash_map) <= Len(addresses.accounts)
        /\ \A a \in RequestedAccounts :
               Cardinality({slot \in DOMAIN accounts_hash_map : slot = Slot(a)}) = 1

\* the table of an input with an account given twice and another account
C11_Witness ==
    /\ pc = "plan"
    /\ \E i, j \in DOMAIN addresses.accounts : i < j /\ addresses.accounts[i] = addresses.accounts[j]
    /\ Cardinality(DOMAIN accounts_hash_map) = 2
    /\ Cardinality(DOMAIN accounts_hash_map) < Len(addresses.accounts)

\* the shards that have got past line 77, and those of them still running
ShardsWithConnection ==
    {tk \in TokenIdx \X ShardIdx : shard_pc[tk[1]][tk[2]] \notin {"init", "failed_connect"}}
ShardsConnected ==
    {tk \in TokenIdx \X ShardIdx : shard_pc[tk[1]][tk[2]] = "connected"}

(* C12: each shard opens a connection of its own, so that as many          *)
(* connections have been opened as shards have got past the opening and as *)
(* many are open as shards are running on one; when get_balance_map        *)
(* returns, with a mapping or an error, every connection opened has been   *)
(* closed, that of a shard that failed after opening it included.          *)
C12_OwnConnectionClosed ==
    /\ pc \in {"scan", "done"} /\ db_has_path =>
          /\ connections.opened = Cardinality(ShardsWithConnection)
          /\ connections.opened - connections.closed = Cardinality(ShardsConnected)
    /\ Done => connections.opened = connections.closed

\* a run returned after a shard failed on its open connection and another
\* shard returned rows
C12_Witness ==
    /\ Done
    /\ connections.closed = 2
    /\ \E t, u \in TokenIdx : \E k, j \in ShardIdx :
          /\ shard_pc[t][k] \in QueryStages
          /\ shard_pc[u][j] = "done"

(* C13: a shard failure cancels nothing: when get_balance_map returns      *)
(* after the scan, every shard of every token has been started and has     *)
(* run to its end, with rows or with an error; if a shard failed, what is  *)
(* returned is an error message and none of the rows the other shards      *)
(* collected.                                                              *)
C13_FailureCancelsNothing ==
    (Done /\ db_has_path) =>
        /\ \A t \in TokenIdx : \A k \in ShardIdx :
               ShardFinished(t, k) /\ shard_results[t][k] # None
        /\ AnyShardFailed => result \in {Err(ErrorMessage(stage)) : stage \in FailedStages}

\* a run returned an error after a shard of a token failed and another shard
\* of the same token returned rows
C13_Witness ==
    /\ Done
    /\ IsErr(result)
    /\ \E t \in TokenIdx : \E k, j \in ShardIdx :
          /\ IsErr(shard_results[t][k])
          /\ IsOk(shard_results[t][j])
          /\ shard_results[t][j].v # <<>>

(* C14: for each token, its balance map is folded only when all shards of  *)
(* the token have finished, and the merge into the token mapping is done   *)
(* only when the scan and the fold of every token have finished.           *)
C14_CollectedBeforeFold ==
    /\ \A t \in DOMAIN token_results :
           token_results[t] # None =>
               \A k \in ShardIdx : ShardFinished(t, k) /\ shard_results[t][k] # None
    /\ (result # None /\ db_has_path) =>
           \A t \in TokenIdx : token_results[t] # None

\* the rows of a token have been folded into balances while a shard of
\* another token has not started
C14_Witness ==
    /\ pc = "scan"
    /\ \E t, u \in TokenIdx : \E k \in ShardIdx :
          /\ token_results[t] # None
          /\ IsOk(token_results[t])
          /\ token_results[t].v.balances # EmptyMap
          /\ shard_pc[u][k] = "init"

(* C15: when two writes for the same token and the slot of a requested     *)
(* account have the same, greatest block number, a run in which no shard   *)
(* fails succeeds and returns for that account the value of one of the     *)
(* tied writes.                                                            *)
C15_TieKeepsTiedValue ==
    (Done /\ db_has_path /\ ~AnyShardFailed) =>
        \A token \in RequestedTokens : \A account \in RequestedAccounts :
            LET latest == LatestWrites(WritesAt(log, token, account))
            IN  Cardinality(latest) >= 2 =>
                  /\ IsOk(result)
                  /\ account \in DOMAIN result.v[token]
                  /\ \E r \in latest : result.v[token][account] = DecodeValue(r.val)

\* the shards of the plan whose query selects row r of the log, for token index t
ShardsSelecting(t, r) ==
    {k \in ShardIdx :
        r \in ShardSelected(log, FeltToBytes(addresses.tokens[t]), shards_per_token, k)}

\* the rows the log holds for the contract of token index t
RowsOfToken(t) ==
    {r \in log : contract_addresses[r.cid] = FeltToBytes(addresses.tokens[t])}

(* C16: for every shard count N >= 1 and every integer id of               *)
(* storage_addresses, the shard predicates (id % N) = k, k in 0..N-1,      *)
(* select each storage-update row of the token in exactly one shard.       *)
C16_EveryRowInOneShard ==
    shards_per_token >= 1 =>
        \A t \in TokenIdx : \A r \in RowsOfToken(t) :
            Cardinality(ShardsSelecting(t, r)) = 1

\* the writes of the log to the (contract id, storage-address id) pair of r
PairOf(r) == {q \in log : q.cid = r.cid /\ q.sid = r.sid}

C18_KeyIffWrite ==
    Succeeded =>
        \A token \in RequestedTokens : \A account \in RequestedAccounts :
            account \in DOMAIN result.v[token] <=> WritesAt(log, token, account) # {}

(* C19: every balance of the map returned for token T is the decoded value *)
(* of a write the log records for contract T at the slot of the account;   *)
(* a write to another contract at the same slot never appears under T.     *)
C19_TokensIsolated ==
    Succeeded =>
        \A token \in RequestedTokens : \A account \in DOMAIN result.v[token] :
            \E r \in WritesAt(log, token, account) :
                result.v[token][account] = DecodeValue(r.val)

\* two tokens were scanned and hold different balances for one account, the
\* log having one write to each contract at the same storage address
C19_Witness ==
    /\ Succeeded
    /\ \E t, u \in RequestedTokens : \E account \in RequestedAccounts :
          /\ t # u
          /\ account \in DOMAIN result.v[t]
          /\ account \in DOMAIN result.v[u]
          /\ result.v[t][account] # result.v[u][account]
          /\ \E r, q \in log : r.cid # q.cid /\ r.sid = q.sid

\* the shards that failed, as (token index, shard index) pairs
FailedShards ==
    {tk \in TokenIdx \X ShardIdx : IsErr(shard_results[tk[1]][tk[2]])}

\* the failed shard that comes first by token index in input order, then by
\* shard index
FirstFailedShard ==
    CHOOSE tk \in FailedShards :
        \A other \in FailedShards :
            \/ tk[1] < other[1]
            \/ tk[1] = other[1] /\ tk[2] <= other[2]

(* C20: when shards fail in a run, the error get_balance_map returns is    *)
(* the error of the lowest-index failing shard of the first token, in      *)
(* input order, that has a failing shard, in whatever order the shards     *)
(* failed.                                                                 *)
C20_FirstFailedShardReported ==
    (Done /\ FailedShards # {}) =>
        result = shard_results[FirstFailedShard[1]][FirstFailedShard[2]]

\* a run returned in which two shards had failed with different errors
C20_Witness ==
    /\ Done
    /\ \E tk, other \in FailedShards :
          shard_results[tk[1]][tk[2]] # shard_results[other[1]][other[2]]

\* the last position of the input at which account a is given
LastIndex(a) ==
    CHOOSE i \in DOMAIN addresses.accounts :
        /\ addresses.accounts[i] = a
        /\ \A j \in DOMAIN addresses.accounts : j > i => addresses.accounts[j] # a

\* a and b are requested accounts with one slot, b given after a
CollidesWithLater(a, b) ==
    /\ a # b
    /\ Slot(a) = Slot(b)
    /\ LastIndex(a) < LastIndex(b)

(* C21: if two distinct requested accounts have the same slot, the hashing *)
(* step does not fail, the slot table has one entry for the slot, that of  *)
(* the account given later, and a successful run reports the balance found *)
(* at the slot under the later account only.                               *)
C21_LaterAccountKeepsSlot ==
    pc \in {"plan", "scan", "done"} =>
        \A a, b \in RequestedAccounts :
            CollidesWithLater(a, b) =>
                /\ Slot(a) \in DOMAIN accounts_hash_map
                /\ accounts_hash_map[Slot(a)] = b
                /\ Succeeded =>
                       \A token \in RequestedTokens :
                           /\ a \notin DOMAIN result.v[token]
                           /\ WritesAt(log, token, b) # {} => b \in DOMAIN result.v[token]

\* a run on two accounts of one slot returned the balance of the slot under
\* the later account
C21_Witness ==
    /\ Succeeded
    /\ \E a, b \in RequestedAccounts : \E token \in RequestedTokens :
          /\ CollidesWithLater(a, b)
          /\ b \in DOMAIN result.v[token]
          /\ result.v[token][b] # FeltZero

\* the shard tasks of the plan, as (token index, shard index) pairs
PlannedShards == {tk \in TokenIdx \X ShardIdx : tk[2] \in DOMAIN shard_pc[tk[1]]}

(* C28: for every number of threads >= 1 and every number of tokens >= 0,  *)
(* shards_per_token is at least 1, is 1 whenever there are at least as     *)
(* many tokens as threads, and the shards of all tokens together number    *)
(* shards_per_token * tokens, at most max(threads, tokens).                *)
C28_ShardPlanWithinCores ==
    pc = "scan" =>
        LET tokens == Len(addresses.tokens)
        IN  /\ shards_per_token = ShardsPerToken(num_cores, tokens)
            /\ shards_per_token >= 1
            /\ tokens >= num_cores => shards_per_token = 1
            /\ Cardinality(PlannedShards) = shards_per_token * tokens
            /\ shards_per_token * tokens <= Max(num_cores, tokens)

\* a plan with more threads than tokens that gives a token several shards and
\* leaves a thread without one
C28_Witness ==
    /\ pc = "scan"
    /\ shards_per_token >= 2
    /\ Len(addresses.tokens) >= 1
    /\ shards_per_token * Len(addresses.tokens) < num_cores

\* the selectable formats, and the formats write_results looks at before f
Formats == {"csv", "json", "sqlite"}
FormatsBefore(f) == {g \in Formats : FormatIndex(g) < FormatIndex(f)}

\* write_results has called the writer of format f; the writer has returned Ok
WasCalled(f) == \E i \in DOMAIN attempted : attempted[i].format = f
ReturnedOk(f) == \E i \in DOMAIN attempted : attempted[i].format = f /\ IsOk(attempted[i].result)

\* the files of format f are as they were before write_results was called
Untouched(f) ==
    IF f = "csv" THEN csv_file = NoFile
    ELSE IF f = "json" THEN json_file = None
    ELSE db \in {None, [committed |-> <<OldRow>>, pending |-> <<>>]}

(* C26: write_results calls the writer of a format, in the order CSV, JSON, *)
(* SQLite, if and only if the format is selected and the writer of every    *)
(* selected format before it has returned Ok.  With no format selected it   *)
(* calls no writer, writes nothing and returns Ok; the first error of a     *)
(* writer is what write_results returns, the later formats left alone.      *)
C26_WritersInOrderUntilError ==
    /\ \A i, j \in DOMAIN attempted :
          i < j => FormatIndex(attempted[i].format) < FormatIndex(attempted[j].format)
    /\ \A f \in Formats :
          /\ WasCalled(f) =>
                /\ config[f]
                /\ \A g \in FormatsBefore(f) : config[g] => ReturnedOk(g)
          /\ ~WasCalled(f) => Untouched(f)
    /\ wr_pc = "done" =>
          /\ \A f \in Formats :
                (config[f] /\ \A g \in FormatsBefore(f) : config[g] => ReturnedOk(g))
                    => WasCalled(f)
          /\ ~has_any_output(config) => attempted = <<>> /\ wr_result = Ok(<<>>)
          /\ IsOk(wr_result) <=> \A i \in DOMAIN attempted : IsOk(attempted[i].result)
          /\ \A i \in DOMAIN attempted :
                IsErr(attempted[i].result) =>
                    /\ i = Len(attempted)
                    /\ wr_result = MapErr(attempted[i].format, attempted[i].result.e)

\* all three formats are selected, the CSV writer succeeds and the JSON writer
\* fails: write_results returns the JSON error and the database is not opened
C26_Witness ==
    /\ wr_pc = "done"
    /\ config = [csv |-> TRUE, json |-> TRUE, sqlite |-> TRUE]
    /\ Len(attempted) = 2
    /\ ReturnedOk("csv")
    /\ IsErr(attempted[2].result)
    /\ IsErr(wr_result)
    /\ ~WasCalled("sqlite")
    /\ Len(csv_file.entries) >= 3

\* the records of all entries of a mapping
AllRecords(map) == UNION {Records(map, t) : t \in DOMAIN map}

(* C23: when store_map_as_csv has returned Ok, token_map.csv holds the      *)
(* header first and then one record for every (token, account, balance)     *)
(* entry of the mapping, each exactly once and nothing else, in whatever    *)
(* order the batches were sent; every record after the header was written   *)
(* by the writer thread.                                                    *)
C23_CsvHoldsEachEntryOnce ==
    LET file == csv_file.entries
    IN  /\ \A i \in DOMAIN file : i >= 2 => file[i].by = "writer"
        /\ ReturnedOk("csv") =>
              /\ csv_file.exists
              /\ Len(file) = 1 + Cardinality(AllRecords(token_map))
              /\ file[1] = Header
              /\ \A i \in 2..Len(file) : file[i].record \in AllRecords(token_map)
              /\ \A rec \in AllRecords(token_map) :
                    Cardinality({i \in 2..Len(file) : file[i].record = rec}) = 1

\* a mapping of two tokens with two accounts each, written with the later
\* token and the later account first
C23_Witness ==
    /\ ReturnedOk("csv")
    /\ Len(csv_file.entries) = 5
    /\ csv_file.entries[2].record = Record(22, 12, 0)
    /\ csv_file.entries[5].record = Record(21, 11, 5)

\* the rows of this run that are committed to the table token_map
CommittedOfRun ==
    IF db = None THEN {}
    ELSE {i \in DOMAIN db.committed : db.committed[i] \in AllRecords(token_map)}

(* C25: store_map_in_sqlite inserts the rows of a run in one transaction    *)
(* and commits it only after every batch has been received and inserted.    *)
(* Until then no row of the run is committed; when the function returns Ok  *)
(* every entry of the mapping is committed exactly once after the rows the  *)
(* table held before; when an insert fails the function returns that error, *)
(* and after any error no row of the run is committed and the rows the      *)
(* table held before are kept.                                              *)
C25_SqliteCommitsAllOrNothing ==
    /\ CommittedOfRun # {} =>
          /\ writer.state = "ended"
          /\ writer.result = Ok(<<>>)
          /\ writer.received = Cardinality(DOMAIN token_map)
          /\ todo = <<>> /\ blocked = <<>> /\ channel = <<>>
          /\ db.pending = <<>>
    /\ \A i \in DOMAIN attempted :
          attempted[i].format = "sqlite" =>
              /\ (writer.state = "ended" /\ writer.result = Err("Failed to insert row")) =>
                    attempted[i].result \in {None, writer.result}
              /\ IsOk(attempted[i].result) =>
                    /\ Cardinality(CommittedOfRun) = Cardinality(AllRecords(token_map))
                    /\ \A rec \in AllRecords(token_map) :
                          Cardinality({j \in CommittedOfRun : db.committed[j] = rec}) = 1
                    /\ db.pending = <<>>
                    /\ \A j \in DOMAIN db.committed : j \notin CommittedOfRun => j = 1
              /\ IsErr(attempted[i].result) =>
                    /\ CommittedOfRun = {}
                    /\ db = None \/ db.pending = <<>>
                    /\ wr_result = attempted[i].result
                    /\ st_pc = "off"

\* the database holds the row of an earlier run, the rows of the first batch
\* are inserted and an insert of the second batch fails: the function returns
\* the error and the table holds the earlier row only
C25_Witness ==
    /\ \E i \in DOMAIN attempted :
          /\ attempted[i].format = "sqlite"
          /\ attempted[i].result = Err("Failed to insert row")
    /\ wr_result = Err("Failed to insert row")
    /\ writer.received >= 2
    /\ \A t \in DOMAIN token_map : token_map[t] # EmptyMap
    /\ db.committed = <<OldRow>>

\* the batches of the running writer that are built or sent and not yet
\* received: with a producer, in the channel, or not yet built
BatchesInFlight == BagSize(todo) + BagSize(blocked) + Len(channel)

(* C22: the channel of store_map_as_csv and of store_map_in_sqlite never    *)
(* holds more than 64 batches.  A producer is blocked in send only after    *)
(* the channel has been full, and while the receiver is alive it stays      *)
(* blocked as long as the channel is full; and while the receiver is alive  *)
(* no batch is lost: every batch of the mapping is not yet built, held by a *)
(* blocked producer, in the channel, or received by the writer thread.      *)
C22_ChannelBoundedNoBatchLost ==
    /\ Len(channel) <= ChannelCapacity
    /\ BagSize(blocked) <= threads
    /\ rx_open =>
          /\ BatchesInFlight + writer.received = Cardinality(DOMAIN token_map)
          /\ blocked # <<>> => Len(channel) + writer.received >= ChannelCapacity
          /\ (blocked # <<>> /\ Len(channel) = ChannelCapacity) => ~ENABLED ProducerUnblocked

\* the channel is full, every producer thread is blocked in send, and the
\* writer thread is alive and has not yet received a batch
C22_Witness ==
    /\ rx_open
    /\ Len(channel) = ChannelCapacity
    /\ BagSize(blocked) = threads
    /\ threads >= 2
    /\ todo # <<>>
    /\ writer.received = 0

\* the channel writer has returned to write_results what its writer thread
\* returned, all producers released and the writer thread joined
StoreReturned ==
    /\ st_pc = "off"
    /\ writer.state = "ended"
    /\ todo = <<>>
    /\ blocked = <<>>
    /\ attempted # <<>>
    /\ attempted[Len(attempted)].result = writer.result

(* C24: store_map_as_csv and store_map_in_sqlite always terminate.  Once    *)
(* the writer thread is spawned, in every interleaving the producers are    *)
(* all released, the writer thread ends and is joined, and the function     *)
(* returns the result of the writer thread: its error when it fails, also   *)
(* when it fails while producers are blocked on a full channel.             *)
C24_StoreTerminates == (st_pc # "off") ~> StoreReturned

\* the writer thread has failed while the channel was full and every
\* producer thread was blocked in send, with batches still to build
C24_Witness ==
    /\ st_pc = "producing"
    /\ writer.state = "ended"
    /\ IsErr(writer.result)
    /\ ~rx_open
    /\ threads >= 2
    /\ BagSize(blocked) = threads
    /\ todo # <<>>

-----------------------------------------------------------------------------
(* The sequential resolution of src/main.rs *)

\* WHERE contract_address = X'<64 hex digits of the token>', over the join of
\* storage_updates with storage_addresses and contract_addresses: the query
\* of main.rs has no condition on storage_addresses.id
MainSelected(l, token) ==
    {r \in l : /\ r.cid \in DOMAIN contract_addresses
               /\ r.sid \in DOMAIN storage_addresses
               /\ contract_addresses[r.cid] = FeltToBytes(token)}

\* every sequence of rows the query of main.rs may return for a token: one
\* row per group of (contract_address_id, storage_address_id), in any order
MainQuery(l, token) ==
    LET rows == MainSelected(l, token)
        keys == GroupKeys(rows)
        picks == {f \in [keys -> rows] : \A key \in keys : f[key] \in GroupWinners(GroupOf(rows, key))}
    IN  {[i \in 1..Len(o) |-> ShardRow(f[o[i]])] : o \in Orderings(keys), f \in picks}

\* the loop over the rows of a token (main.rs lines 186-197): a storage
\* address that does not parse panics, a row of an unknown slot is passed
\* over, a value that does not parse counts as zero, a later row of an
\* account overwrites an earlier one
RECURSIVE MainFoldRows(_, _, _)
MainFoldRows(balance_map, ahm, rows) ==
    IF rows = <<>> THEN Ok(balance_map)
    ELSE LET row == Head(rows)
             storage_addr_felt == FromHex(row[2])
             balance_felt == IF IsOk(FromHex(row[3])) THEN FromHex(row[3]).v ELSE FeltZero
         IN  IF IsErr(storage_addr_felt) THEN Err("Failed to parse storage value")
             ELSE MainFoldRows(IF storage_addr_felt.v \in DOMAIN ahm
                               THEN Insert(balance_map, ahm[storage_addr_felt.v], balance_felt)
                               ELSE balance_map,
                               ahm, Tail(rows))

\* the loop over the tokens (main.rs lines 121-203) on the rows answers[i]
\* the query returned for the i-th token
RECURSIVE MainTokens(_, _, _, _, _)
MainTokens(tokens, i, ahm, answers, main_token_map) ==
    IF i > Len(tokens) THEN Ok(main_token_map)
    ELSE LET balance_map == MainFoldRows(EmptyMap, ahm, answers[i])
         IN  IF IsErr(balance_map) THEN balance_map
             ELSE MainTokens(tokens, i + 1, ahm, answers,
                             Insert(main_token_map, tokens[i], balance_map.v))

\* what main.rs may compute on the log l for the addresses addr: the slot
\* table is built as in balance.rs (main.rs lines 108-115 are its lines 37-44)
MainOutcomes(l, addr) ==
    LET ahm == HashAccountsFrom(addr.accounts, 1, EmptyMap)
        any == UNION {MainQuery(l, addr.tokens[t]) : t \in DOMAIN addr.tokens}
        answers == {a \in [DOMAIN addr.tokens -> any] :
                       \A t \in DOMAIN addr.tokens : a[t] \in MainQuery(l, addr.tokens[t])}
    IN  {MainTokens(addr.tokens, 1, ahm, a, EmptyMap) : a \in answers}

\* every storage address the log writes at parses as a felt
StorageAddressesParse(l) == \A r \in l : IsOk(FromHex(storage_addresses[r.sid]))

\* no slot of the log is written under two ids of storage_addresses
OneIdPerSlot(l) ==
    \A r, q \in l : storage_addresses[r.sid] = storage_addresses[q.sid] => r.sid = q.sid

(* C27: for every log in which each storage address parses, the sequential  *)
(* resolution of main.rs and a successful get_balance_map of balance.rs     *)
(* give the same token -> account -> balance mapping for the same accounts  *)
(* and tokens.  Stated on the logs in which no two writes to one contract   *)
(* and slot have the same block number and no slot has two ids, on which    *)
(* neither resolution depends on the order of the rows.                     *)
C27_SequentialSameAsSharded ==
    (Succeeded /\ StorageAddressesParse(log) /\ NoVersionTie(log) /\ OneIdPerSlot(log)) =>
        \A m \in MainOutcomes(log, addresses) : m = Ok(result.v)

====
